---------------------------- MODULE Spec2Model ----------------------------
(***************************************************************************)
(* Page-replacement simulator (memory-management-go): the optimal (OPT)    *)
(* and the clock (second chance) policies replaying one access trace over  *)
(* a fixed number of frames, as driven by main / Simulator.Run or by       *)
(* direct calls of the two algorithms on one Simulator.                    *)
(*                                                                         *)
(* A page id (a string such as "I0" or "D17" in the program) is modelled   *)
(* as a natural number; both policies use page ids only as map keys and    *)
(* compare them only for equality.  Go slices are 0-based: every index     *)
(* the program computes (trace positions, frame indices, clockPointer)     *)
(* keeps its 0-based value, and element k of a slice s is s[k + 1] here.   *)
(***************************************************************************)
EXTENDS Integers, Sequences, FiniteSets, TLC

(***************************************************************************)
(* Bounds of the model.                                                    *)
(***************************************************************************)
NumPages == 3
MaxLen == 4
MaxFrames == 4

(***************************************************************************)
(* Program constants.                                                      *)
(***************************************************************************)
PAGE_SIZE == 4096
NotComputed == -1

(***************************************************************************)
(* The traces of section 8 of the specification and one trace on which the *)
(* clock policy faults more often with four frames than with three.        *)
(***************************************************************************)
Example1 == <<1, 2, 3, 1, 2, 4, 1, 2, 3, 4>>
Example2 == <<1, 1, 1, 1>>
Example3 == <<1, 2, 3, 4>>
Example4 == <<1, 2, 1, 2, 1, 2>>
AnomalyTrace == <<1, 2, 3, 4, 2, 1, 2, 5, 1, 2>>
NamedTraces == {Example1, Example2, Example3, Example4, AnomalyTrace}

\* The empty trace is what a Simulator holds before LoadAccessFile, and what
\* a file with no valid access gives.
Traces == UNION {[1..n -> 1..NumPages] : n \in 0..MaxLen} \cup NamedTraces

\* Memory sizes giving 0..MaxFrames frames: nothing, one byte less than a page,
\* exactly one page, and for more frames a size that is no multiple of a page.
MemSizes ==
  {0, PAGE_SIZE - 1}
    \cup {f * PAGE_SIZE + (IF f > 1 THEN PAGE_SIZE - 1 ELSE 0) : f \in 1..MaxFrames}

Impls == {"main.go", "part_000"}

(***************************************************************************)
(* Go maps as functions; reading a missing int key gives 0.                *)
(***************************************************************************)
EmptyMap == [x \in {} |-> 0]
MapPut(m, k, v) == [x \in DOMAIN m \cup {k} |-> IF x = k THEN v ELSE m[x]]
MapKeep(m, k) == m
MapDelete(m, k) == [x \in DOMAIN m \ {k} |-> m[x]]
MapGetInt(m, k) == IF k \in DOMAIN m THEN m[k] ELSE 0
MapGetSeq(m, k) == IF k \in DOMAIN m THEN m[k] ELSE <<>>

Range(s) == {s[k] : k \in DOMAIN s}
SetMin(S) == CHOOSE x \in S : \A y \in S : x <= y
SeqSet(s, k, v) == [s EXCEPT ![k + 1] = v]

\* memorySize / PAGE_SIZE of NewSimulator (integer division).
FramesOf(mem) == mem \div PAGE_SIZE

\* sort.SearchInts(a, x): the smallest 0-based index whose element is >= x,
\* len(a) when there is none.
SearchInts(a, x) ==
  LET S == {k \in 0..(Len(a) - 1) : a[k + 1] >= x}
  IN  IF S = {} THEN Len(a) ELSE SetMin(S)

\* The positions map both OptimalAlgorithm versions build before the replay:
\* page -> the 0-based positions of its accesses, in increasing order.
RECURSIVE BuildPositions(_, _)
BuildPositions(acc, n) ==
  IF n = 0 THEN EmptyMap
  ELSE LET m == BuildPositions(acc, n - 1)
           pageID == acc[n]
       IN  MapPut(m, pageID, Append(MapGetSeq(m, pageID), n - 1))

VARIABLES
  accesses,        \* s.accesses, the loaded trace (page ids)
  memorySize,      \* os.Args[2] / the argument of NewSimulator
  totalFrames,     \* s.totalFrames
  skipOptimal,     \* s.skipOptimal
  showLoadCount,   \* s.showLoadCount
  impl,            \* which source file's OptimalAlgorithm is built
  pc,              \* "start", "idle", "Run", "opt", "clock", "exit", "panic"
  caller,          \* who called Run: "main" or "test" ("none" before)
  inRun,           \* the algorithm in progress was called by Run
  i,               \* the replay loop's index: accesses[0..i-1] are processed
  frames,          \* OptimalAlgorithm's frames slice
  inMemory,        \* OptimalAlgorithm's inMemory map (main.go)
  frameMap,        \* OptimalAlgorithm's frameMap (part_000)
  pageAccessPositions, \* OptimalAlgorithm's positions map (nextUse in part_000)
  clockFrames,     \* ClockAlgorithm's frames slice
  pageToFrame,     \* ClockAlgorithm's pageToFrame map
  clockPointer,    \* ClockAlgorithm's clockPointer
  pageFaults,      \* the running algorithm's pageFaults
  evictions,       \* how often the running algorithm took its replacement branch
  pageLoadCount,   \* s.pageLoadCount
  optimalFaults,   \* Run's optimalFaults
  clockFaults,     \* Run's clockFaults
  output,          \* what the current top-level call has printed
  results,         \* per policy, the result of its last completed run
  lastRun          \* the policy of the last completed run ("none" before)

vars ==
  <<accesses, memorySize, totalFrames, skipOptimal, showLoadCount, impl, pc,
    caller, inRun, i, frames, inMemory, frameMap, pageAccessPositions,
    clockFrames, pageToFrame, clockPointer, pageFaults, evictions,
    pageLoadCount, optimalFaults, clockFaults, output, results, lastRun>>

simVars == <<accesses, memorySize, totalFrames, impl>>
optLocals == <<frames, inMemory, frameMap, pageAccessPositions>>
clockLocals == <<clockFrames, pageToFrame, clockPointer>>

NilFrame == [nil |-> TRUE]
NoResult == [none |-> TRUE]
Policies == {"opt", "clock"}

Line(msg, n, m, counts) == [msg |-> msg, n |-> n, m |-> m, counts |-> counts]


(***************************************************************************)
(* OptimalAlgorithm.  An algorithm's locals are gathered in a record so    *)
(* that one loop iteration is an operator from record to record.           *)
(***************************************************************************)

\* s.pageLoadCount = make(map[string]int) on entry of either algorithm.
KeepLoadCount(old) == old
FreshLoadCount(old) == EmptyMap

\* An assignment of 1 in place of the increment.
CountLoadOnce(counts, pageID) == MapPut(counts, pageID, 1)

\* s.pageLoadCount[pageID]++
CountLoad(counts, pageID) == MapPut(counts, pageID, MapGetInt(counts, pageID) + 1)

\* main.go: the victim scan over frames, from frameIdx on.  The scan stops at
\* the first page that is never used again.
RECURSIVE ScanVictim(_, _, _, _, _, _)
ScanVictim(fr, positionsMap, idx, frameIdx, farthest, victimIndex) ==
  IF frameIdx >= Len(fr) THEN victimIndex
  ELSE LET positions == MapGetSeq(positionsMap, fr[frameIdx + 1])
           nextUsePos == SearchInts(positions, idx + 1)
       IN  IF nextUsePos = Len(positions) THEN frameIdx
           ELSE LET nextUse == positions[nextUsePos + 1]
                IN  IF nextUse > farthest
                      THEN ScanVictim(fr, positionsMap, idx, frameIdx + 1, nextUse, frameIdx)
                      ELSE ScanVictim(fr, positionsMap, idx, frameIdx + 1, farthest, victimIndex)

\* A scan that keeps the page used soonest (the comparison turned round; a
\* page never used again counts as used last).
RECURSIVE ScanNearest(_, _, _, _, _, _)
ScanNearest(fr, positionsMap, idx, frameIdx, nearest, victimIndex) ==
  IF frameIdx >= Len(fr) THEN victimIndex
  ELSE LET positions == MapGetSeq(positionsMap, fr[frameIdx + 1])
           nextUsePos == SearchInts(positions, idx + 1)
           nextUse == IF nextUsePos = Len(positions) THEN nearest
                      ELSE positions[nextUsePos + 1]
       IN  IF victimIndex = -1 \/ nextUse < nearest
             THEN ScanNearest(fr, positionsMap, idx, frameIdx + 1, nextUse, frameIdx)
             ELSE ScanNearest(fr, positionsMap, idx, frameIdx + 1, nearest, victimIndex)

NearestVictim(fr, positionsMap, n, idx) == ScanNearest(fr, positionsMap, idx, 0, n, -1)

\* main.go's scan without its break: a page never used again becomes the
\* victim but the scan goes on, and a later page used again replaces it.
RECURSIVE ScanVictimNoBreak(_, _, _, _, _, _)
ScanVictimNoBreak(fr, positionsMap, idx, frameIdx, farthest, victimIndex) ==
  IF frameIdx >= Len(fr) THEN victimIndex
  ELSE LET positions == MapGetSeq(positionsMap, fr[frameIdx + 1])
           nextUsePos == SearchInts(positions, idx + 1)
       IN  IF nextUsePos = Len(positions)
             THEN ScanVictimNoBreak(fr, positionsMap, idx, frameIdx + 1, farthest, frameIdx)
           ELSE LET nextUse == positions[nextUsePos + 1]
                IN  IF nextUse > farthest
                      THEN ScanVictimNoBreak(fr, positionsMap, idx, frameIdx + 1, nextUse, frameIdx)
                      ELSE ScanVictimNoBreak(fr, positionsMap, idx, frameIdx + 1, farthest, victimIndex)

ChooseVictimNoBreak(fr, positionsMap, n, idx) ==
  ScanVictimNoBreak(fr, positionsMap, idx, 0, -1, -1)

\* main.go: farthest := -1, victimIndex := -1 and the scan (n is len(s.accesses),
\* which only the part_000 version reads).
ChooseVictim(fr, positionsMap, n, idx) == ScanVictim(fr, positionsMap, idx, 0, -1, -1)

\* part_000: the victim scan; a page never used again gets the position
\* len(s.accesses) and ends the scan after the comparison.
RECURSIVE ScanVictimFrame(_, _, _, _, _, _, _)
ScanVictimFrame(fr, nextUse, n, idx, frameIdx, farthestNextUse, victimFrame) ==
  IF frameIdx >= Len(fr) THEN victimFrame
  ELSE LET positions == MapGetSeq(nextUse, fr[frameIdx + 1])
           searchIndex == SearchInts(positions, idx + 1)
           nextPos == IF searchIndex = Len(positions) THEN n
                      ELSE positions[searchIndex + 1]
           better == nextPos > farthestNextUse
           far2 == IF better THEN nextPos ELSE farthestNextUse
           vic2 == IF better THEN frameIdx ELSE victimFrame
       IN  IF nextPos = n THEN vic2
           ELSE ScanVictimFrame(fr, nextUse, n, idx, frameIdx + 1, far2, vic2)

ChooseVictimFrame(fr, nextUse, n, idx) ==
  ScanVictimFrame(fr, nextUse, n, idx, 0, -1, -1)

\* len(frames) < s.totalFrames: there is still room.
HasFreeSlotOffByOne(fr, F) == Len(fr) < F - 1
HasFreeSlotInclusive(fr, F) == Len(fr) <= F
HasFreeSlot(fr, F) == Len(fr) < F

\* main.go: frames = append(frames, pageID); inMemory[pageID] = true
AppendPageUnmarked(st, pageID) == [st EXCEPT !.frames = Append(@, pageID)]
AppendPage(st, pageID) ==
  [st EXCEPT !.frames = Append(@, pageID), !.inMemory = MapPut(@, pageID, TRUE)]

\* The locals of OptimalAlgorithm after its entry code.
OptimalStart(counts) ==
  [frames |-> <<>>, inMemory |-> EmptyMap, frameMap |-> EmptyMap,
   pageFaults |-> 0, pageLoadCount |-> FreshLoadCount(counts),
   evictions |-> 0, panic |-> FALSE]

\* main.go: one iteration of the replay loop, at 0-based position idx.
\* frames[victimIndex] with victimIndex = -1 is a run-time panic.
OptimalIteration(st, acc, positionsMap, F, idx) ==
  LET pageID == acc[idx + 1]
  IN  IF pageID \in DOMAIN st.inMemory THEN st
      ELSE LET faulted == [st EXCEPT !.pageFaults = @ + 1,
                                     !.pageLoadCount = CountLoad(@, pageID)]
           IN  IF HasFreeSlot(st.frames, F)
                 THEN AppendPage(faulted, pageID)
                 ELSE LET victimIndex == ChooseVictim(st.frames, positionsMap, Len(acc), idx)
                      IN  IF victimIndex < 0 \/ victimIndex >= Len(st.frames)
                            THEN [faulted EXCEPT !.panic = TRUE]
                            ELSE [faulted EXCEPT
                                    !.inMemory = MapPut(MapDelete(@, st.frames[victimIndex + 1]),
                                                        pageID, TRUE),
                                    !.frames = SeqSet(@, victimIndex, pageID),
                                    !.evictions = @ + 1]

\* part_000: one iteration of the replay loop.
OptimalIterationFrameMap(st, acc, nextUse, F, idx) ==
  LET pageID == acc[idx + 1]
  IN  IF pageID \in DOMAIN st.frameMap THEN st
      ELSE LET faulted == [st EXCEPT !.pageFaults = @ + 1,
                                     !.pageLoadCount = CountLoad(@, pageID)]
           IN  IF HasFreeSlot(st.frames, F)
                 THEN [faulted EXCEPT !.frames = Append(@, pageID),
                                      !.frameMap = MapPut(@, pageID, Len(st.frames))]
                 ELSE LET victimFrame == ChooseVictimFrame(st.frames, nextUse, Len(acc), idx)
                      IN  IF victimFrame < 0 \/ victimFrame >= Len(st.frames)
                            THEN [faulted EXCEPT !.panic = TRUE]
                            ELSE [faulted EXCEPT
                                    !.frameMap = MapPut(MapDelete(@, st.frames[victimFrame + 1]),
                                                        pageID, victimFrame),
                                    !.frames = SeqSet(@, victimFrame, pageID),
                                    !.evictions = @ + 1]

OptimalStep(im, st, acc, positionsMap, F, idx) ==
  IF im = "main.go" THEN OptimalIteration(st, acc, positionsMap, F, idx)
  ELSE OptimalIterationFrameMap(st, acc, positionsMap, F, idx)

(***************************************************************************)
(* ClockAlgorithm.                                                         *)
(***************************************************************************)
\* A frame loaded with the reference bit left unset.
NewFrameUnreferenced(pageID) == [PageID |-> pageID, Referenced |-> FALSE, LoadCount |-> 1]

\* &PageFrame{PageID: pageID, Referenced: true, LoadCount: 1}
NewFrame(pageID) == [PageID |-> pageID, Referenced |-> TRUE, LoadCount |-> 1]

\* The search without its break: the highest nil index.
EmptyFrameLast(fr, F) ==
  LET S == {j \in 0..(F - 1) : fr[j + 1] = NilFrame}
  IN  IF S = {} THEN -1 ELSE CHOOSE j \in S : \A k \in S : k <= j

\* The search for an empty frame: the lowest nil index, -1 when none.
EmptyFrame(fr, F) ==
  LET S == {j \in 0..(F - 1) : fr[j + 1] = NilFrame}
  IN  IF S = {} THEN -1 ELSE SetMin(S)

\* The for { } loop of the replacement branch from hand position cp: frames
\* with the bit set lose it and are passed; the first frame without it is the
\* victim.  visited counts the frames the loop looked at.  A hand outside
\* the slice is an index out of range (victim -1 stands for the panic).
\* clockPointer = (clockPointer + 1) % s.totalFrames
AdvanceHandLate(cp, F) == IF cp + 1 > F THEN 0 ELSE cp + 1
AdvanceHand(cp, F) == (cp + 1) % F

RECURSIVE ClockScan(_, _, _, _)
ClockScan(fr, cp, F, visited) ==
  IF cp >= Len(fr) THEN [frames |-> fr, victim |-> -1, visited |-> visited + 1]
  ELSE IF ~fr[cp + 1].Referenced
    THEN [frames |-> fr, victim |-> cp, visited |-> visited + 1]
    ELSE ClockScan(SeqSet(fr, cp, [fr[cp + 1] EXCEPT !.Referenced = FALSE]),
                   AdvanceHand(cp, F), F, visited + 1)

ClockStart(counts, F) ==
  [frames |-> [j \in 1..F |-> NilFrame], pageToFrame |-> EmptyMap,
   clockPointer |-> 0, pageFaults |-> 0,
   pageLoadCount |-> FreshLoadCount(counts), evictions |-> 0, panic |-> FALSE]

\* A hit that marks frame 0 whatever frame holds the page.
MarkReferencedFirst(fr, frameIndex) == [fr EXCEPT ![1].Referenced = TRUE]

\* frames[frameIndex].Referenced = true
MarkReferenced(fr, frameIndex) == [fr EXCEPT ![frameIndex + 1].Referenced = TRUE]

\* One iteration of the replay loop.  With no frame at all, frames[clockPointer]
\* is an index out of range: a run-time panic.
ClockIteration(st, acc, F, idx) ==
  LET pageID == acc[idx + 1]
  IN  IF pageID \in DOMAIN st.pageToFrame
        THEN LET frameIndex == st.pageToFrame[pageID]
             IN  [st EXCEPT !.frames = MarkReferenced(@, frameIndex)]
        ELSE LET faulted == [st EXCEPT !.pageFaults = @ + 1,
                                       !.pageLoadCount = CountLoad(@, pageID)]
                 emptyFrame == EmptyFrame(st.frames, F)
             IN  IF emptyFrame # -1
                   THEN [faulted EXCEPT !.frames = SeqSet(@, emptyFrame, NewFrame(pageID)),
                                        !.pageToFrame = MapPut(@, pageID, emptyFrame)]
                   ELSE IF st.clockPointer >= Len(st.frames)
                          THEN [faulted EXCEPT !.panic = TRUE]
                          ELSE LET scan == ClockScan(st.frames, st.clockPointer, F, 0)
                                   oldPageID == scan.frames[scan.victim + 1].PageID
                               IN  IF scan.victim < 0 THEN [faulted EXCEPT !.panic = TRUE]
                                   ELSE
                                   [faulted EXCEPT
                                      !.pageToFrame = MapPut(MapDelete(@, oldPageID),
                                                             pageID, scan.victim),
                                      !.frames = SeqSet(scan.frames, scan.victim,
                                                        NewFrame(pageID)),
                                      !.clockPointer = AdvanceHand(scan.victim, F),
                                      !.evictions = @ + 1]

(***************************************************************************)
(* The state machine.                                                      *)
(***************************************************************************)
OptimalIdle ==
  /\ frames = <<>> /\ inMemory = EmptyMap /\ frameMap = EmptyMap
  /\ pageAccessPositions = EmptyMap

ClockIdle == clockFrames = <<>> /\ pageToFrame = EmptyMap /\ clockPointer = 0

Init ==
  /\ accesses \in Traces
  /\ memorySize \in MemSizes
  /\ impl \in Impls
  /\ totalFrames = 0
  /\ skipOptimal = FALSE
  /\ showLoadCount = FALSE
  /\ pc = "start"
  /\ caller = "none"
  /\ inRun = FALSE
  /\ i = 0
  /\ OptimalIdle
  /\ ClockIdle
  /\ pageFaults = 0
  /\ evictions = 0
  /\ pageLoadCount = EmptyMap
  /\ optimalFaults = 0
  /\ clockFaults = 0
  /\ output = <<>>
  /\ results = [p \in Policies |-> NoResult]
  /\ lastRun = "none"

\* The locals of the running OptimalAlgorithm as one record, and back.
OptimalLocals ==
  [frames |-> frames, inMemory |-> inMemory, frameMap |-> frameMap,
   pageFaults |-> pageFaults, pageLoadCount |-> pageLoadCount,
   evictions |-> evictions, panic |-> FALSE]

SetOptimalLocals(st) ==
  /\ frames' = st.frames
  /\ inMemory' = st.inMemory
  /\ frameMap' = st.frameMap
  /\ pageFaults' = st.pageFaults
  /\ pageLoadCount' = st.pageLoadCount
  /\ evictions' = st.evictions

ClockLocals ==
  [frames |-> clockFrames, pageToFrame |-> pageToFrame,
   clockPointer |-> clockPointer, pageFaults |-> pageFaults,
   pageLoadCount |-> pageLoadCount, evictions |-> evictions, panic |-> FALSE]

SetClockLocals(st) ==
  /\ clockFrames' = st.frames
  /\ pageToFrame' = st.pageToFrame
  /\ clockPointer' = st.clockPointer
  /\ pageFaults' = st.pageFaults
  /\ pageLoadCount' = st.pageLoadCount
  /\ evictions' = st.evictions

\* Entry of OptimalAlgorithm, up to the replay loop.
OptimalEntry ==
  /\ SetOptimalLocals(OptimalStart(pageLoadCount))
  /\ pageAccessPositions' = BuildPositions(accesses, Len(accesses))
  /\ i' = 0
  /\ pc' = "opt"

\* Entry of ClockAlgorithm, up to the replay loop.
ClockEntry ==
  /\ SetClockLocals(ClockStart(pageLoadCount, totalFrames))
  /\ i' = 0
  /\ pc' = "clock"

OptimalLeave ==
  /\ frames' = <<>> /\ inMemory' = EmptyMap /\ frameMap' = EmptyMap
  /\ pageAccessPositions' = EmptyMap

ClockLeave == clockFrames' = <<>> /\ pageToFrame' = EmptyMap /\ clockPointer' = 0

Result(faults, counts) == [faults |-> faults, loadCount |-> counts]

\* main's check of the memory size and Run's check of the frame count.
MemoryTooSmall(mem) == mem < PAGE_SIZE
AnyFrameCount(F) == F < 0
NoFrames(F) == F = 0

\* Run's test of the flag: if !s.skipOptimal { ... OptimalAlgorithm() ... }
RunsOptimalAlways(skip) == TRUE
RunsOptimal(skip) == ~skip

\* main: the memory-size check, NewSimulator, the options, LoadAccessFile
\* (an error when the file has no valid access), and the call of Run.
MainArgs ==
  /\ pc = "start"
  /\ IF MemoryTooSmall(memorySize)
       THEN /\ output' = <<Line("erro_memoria_pequena", memorySize, 0, EmptyMap)>>
            /\ pc' = "exit"
            /\ UNCHANGED <<totalFrames, skipOptimal, showLoadCount, caller>>
       ELSE IF accesses = <<>>
       THEN /\ totalFrames' = FramesOf(memorySize)
            /\ skipOptimal' \in BOOLEAN
            /\ showLoadCount' \in BOOLEAN
            /\ caller' = "main"
            /\ output' = <<Line("erro_carregar_arquivo", 0, 0, EmptyMap)>>
            /\ pc' = "exit"
       ELSE /\ totalFrames' = FramesOf(memorySize)
            /\ skipOptimal' \in BOOLEAN
            /\ showLoadCount' \in BOOLEAN
            /\ caller' = "main"
            /\ pc' = "Run"
            /\ UNCHANGED output
  /\ UNCHANGED <<accesses, memorySize, impl, inRun, i, optLocals, clockLocals,
                 pageFaults, evictions, pageLoadCount, optimalFaults,
                 clockFaults, results, lastRun>>

\* A caller other than main (a test): NewSimulator with any memory size.
NewSimulator ==
  /\ pc = "start"
  /\ totalFrames' = FramesOf(memorySize)
  /\ caller' = "test"
  /\ pc' = "idle"
  /\ UNCHANGED <<accesses, memorySize, impl, skipOptimal, showLoadCount, inRun,
                 i, optLocals, clockLocals, pageFaults, evictions,
                 pageLoadCount, optimalFaults, clockFaults, output, results, lastRun>>

\* The test sets skipOptimal and calls Run.
CallRun ==
  /\ pc = "idle"
  /\ skipOptimal' \in BOOLEAN
  /\ UNCHANGED showLoadCount
  /\ pc' = "Run"
  /\ output' = <<>>
  /\ optimalFaults' = 0
  /\ clockFaults' = 0
  /\ UNCHANGED <<simVars, caller, inRun, i, optLocals, clockLocals, pageFaults,
                 evictions, pageLoadCount, results, lastRun>>

\* The test calls OptimalAlgorithm itself.
CallOptimal ==
  /\ pc = "idle"
  /\ OptimalEntry
  /\ inRun' = FALSE
  /\ output' = <<>>
  /\ optimalFaults' = 0
  /\ clockFaults' = 0
  /\ UNCHANGED <<simVars, skipOptimal, showLoadCount, caller, clockLocals, results, lastRun>>

\* The test calls ClockAlgorithm itself.
CallClock ==
  /\ pc = "idle"
  /\ ClockEntry
  /\ inRun' = FALSE
  /\ output' = <<>>
  /\ optimalFaults' = 0
  /\ clockFaults' = 0
  /\ UNCHANGED <<simVars, skipOptimal, showLoadCount, caller, optLocals, results, lastRun>>

AfterRun == IF caller = "main" THEN "exit" ELSE "idle"

\* Run, from its first line to the call of the first algorithm.
RunStart ==
  /\ pc = "Run"
  /\ IF NoFrames(totalFrames)
       THEN /\ output' = <<Line("erro_memoria_insuficiente", PAGE_SIZE, 0, EmptyMap)>>
            /\ pc' = AfterRun
            /\ UNCHANGED <<inRun, i, optLocals, clockLocals, pageFaults,
                           evictions, pageLoadCount, optimalFaults>>
       ELSE IF RunsOptimal(skipOptimal)
         THEN /\ OptimalEntry
              /\ inRun' = TRUE
              /\ output' = <<>>
              /\ UNCHANGED <<clockLocals, optimalFaults>>
         ELSE /\ optimalFaults' = NotComputed
              /\ output' = <<Line("otimo_ignorado", 0, 0, EmptyMap)>>
              /\ ClockEntry
              /\ inRun' = TRUE
              /\ UNCHANGED optLocals
  /\ UNCHANGED <<simVars, skipOptimal, showLoadCount, caller, clockFaults, results, lastRun>>

\* One iteration of OptimalAlgorithm's replay loop.
OptimalAccess ==
  /\ pc = "opt"
  /\ i < Len(accesses)
  /\ LET st == OptimalStep(impl, OptimalLocals, accesses, pageAccessPositions,
                           totalFrames, i)
     IN  /\ SetOptimalLocals(st)
         /\ IF st.panic
              THEN pc' = "panic" /\ i' = i
              ELSE pc' = pc /\ i' = i + 1
  /\ UNCHANGED <<simVars, skipOptimal, showLoadCount, caller, inRun,
                 pageAccessPositions, clockLocals, optimalFaults, clockFaults,
                 output, results, lastRun>>

\* OptimalAlgorithm returns pageFaults; in Run the count is printed and
\* ClockAlgorithm is called.
OptimalReturn ==
  /\ pc = "opt"
  /\ i = Len(accesses)
  /\ results' = [results EXCEPT !["opt"] = Result(pageFaults, pageLoadCount)]
  /\ lastRun' = "opt"
  /\ OptimalLeave
  /\ IF inRun
       THEN /\ optimalFaults' = pageFaults
            /\ output' = Append(output, Line("faltas_otimo", pageFaults, 0, EmptyMap))
            /\ ClockEntry
            /\ UNCHANGED inRun
       ELSE /\ pc' = "idle"
            /\ i' = 0
            /\ pageFaults' = 0
            /\ evictions' = 0
            /\ UNCHANGED <<inRun, optimalFaults, output, pageLoadCount, clockLocals>>
  /\ UNCHANGED <<simVars, skipOptimal, showLoadCount, caller, clockFaults>>

\* One iteration of ClockAlgorithm's replay loop.
ClockAccess ==
  /\ pc = "clock"
  /\ i < Len(accesses)
  /\ LET st == ClockIteration(ClockLocals, accesses, totalFrames, i)
     IN  /\ SetClockLocals(st)
         /\ IF st.panic
              THEN pc' = "panic" /\ i' = i
              ELSE pc' = pc /\ i' = i + 1
  /\ UNCHANGED <<simVars, skipOptimal, showLoadCount, caller, inRun, optLocals,
                 optimalFaults, clockFaults, output, results, lastRun>>

\* A test for a count other than zero in place of a positive one.
EfficiencyNonZero(opt, clock) ==
  IF opt # 0 /\ clock # 0 THEN Line("eficiencia", opt, clock, EmptyMap)
  ELSE IF opt = NotComputed THEN Line("eficiencia_na_nao_executado", 0, 0, EmptyMap)
  ELSE Line("eficiencia_na_sem_faltas", 0, 0, EmptyMap)

\* Run's efficiency report.
Efficiency(opt, clock) ==
  IF opt > 0 /\ clock > 0 THEN Line("eficiencia", opt, clock, EmptyMap)
  ELSE IF opt = NotComputed THEN Line("eficiencia_na_nao_executado", 0, 0, EmptyMap)
  ELSE Line("eficiencia_na_sem_faltas", 0, 0, EmptyMap)

\* ShowLoadCount: the per-page counts of s.pageLoadCount, when asked for.
ShowLoadCount(show, counts) ==
  IF show THEN <<Line("carregamentos", 0, 0, counts)>> ELSE <<>>

\* ClockAlgorithm returns pageFaults; in Run the count, the efficiency and
\* the load counts are printed and Run returns.
ClockReturn ==
  /\ pc = "clock"
  /\ i = Len(accesses)
  /\ results' = [results EXCEPT !["clock"] = Result(pageFaults, pageLoadCount)]
  /\ lastRun' = "clock"
  /\ ClockLeave
  /\ i' = 0
  /\ pageFaults' = 0
  /\ evictions' = 0
  /\ IF inRun
       THEN /\ clockFaults' = pageFaults
            /\ output' = output
                   \o <<Line("faltas_relogio", pageFaults, 0, EmptyMap),
                        Efficiency(optimalFaults, pageFaults)>>
                   \o ShowLoadCount(showLoadCount, pageLoadCount)
            /\ pc' = AfterRun
            /\ inRun' = FALSE
       ELSE /\ pc' = "idle"
            /\ UNCHANGED <<inRun, clockFaults, output>>
  /\ UNCHANGED <<simVars, skipOptimal, showLoadCount, caller, optLocals,
                 pageLoadCount, optimalFaults>>

Next ==
  \/ MainArgs
  \/ NewSimulator
  \/ CallRun
  \/ CallOptimal
  \/ CallClock
  \/ RunStart
  \/ OptimalAccess
  \/ OptimalReturn
  \/ ClockAccess
  \/ ClockReturn

Spec == Init /\ [][Next]_vars

(***************************************************************************)
(* Whole runs on a fresh Simulator, as the composition of the loop         *)
(* iterations above: the locals after the first n accesses.                *)
(***************************************************************************)
RECURSIVE OptimalPrefix(_, _, _, _, _)
OptimalPrefix(im, acc, positionsMap, F, n) ==
  IF n = 0 THEN OptimalStart(EmptyMap)
  ELSE LET prev == OptimalPrefix(im, acc, positionsMap, F, n - 1)
       IN  IF prev.panic THEN prev
           ELSE OptimalStep(im, prev, acc, positionsMap, F, n - 1)

OptimalRun(im, acc, F) ==
  OptimalPrefix(im, acc, BuildPositions(acc, Len(acc)), F, Len(acc))

RECURSIVE ClockPrefix(_, _, _)
ClockPrefix(acc, F, n) ==
  IF n = 0 THEN ClockStart(EmptyMap, F)
  ELSE LET prev == ClockPrefix(acc, F, n - 1)
       IN  IF prev.panic THEN prev ELSE ClockIteration(prev, acc, F, n - 1)

ClockRun(acc, F) == ClockPrefix(acc, F, Len(acc))

\* The fewest faults of any demand-paging replay of acc[idx..] with F frames
\* from the resident set R: a fault with a free frame loads the page, a fault
\* with no free frame evicts any one resident page.
RECURSIVE MinFaults(_, _, _, _)
MinFaults(acc, F, idx, R) ==
  IF idx >= Len(acc) THEN 0
  ELSE LET pageID == acc[idx + 1]
       IN  IF pageID \in R THEN MinFaults(acc, F, idx + 1, R)
           ELSE IF Cardinality(R) < F
             THEN 1 + MinFaults(acc, F, idx + 1, R \cup {pageID})
             ELSE 1 + SetMin({MinFaults(acc, F, idx + 1, (R \ {v}) \cup {pageID}) : v \in R})

DistinctPages(acc) == Range(acc)

OptimalDone == pc = "opt" /\ i = Len(accesses)
ClockDone == pc = "clock" /\ i = Len(accesses)
RunFinished ==
  /\ pc \in {"exit", "idle"}
  /\ \E k \in DOMAIN output : output[k].msg = "faltas_relogio"

(***************************************************************************)
(* C1: on the same trace and the same frame count F >= 1, the fault count  *)
(* OptimalAlgorithm returns is at most the one ClockAlgorithm returns:     *)
(* for the two counts Run holds when it has run both, and for the last     *)
(* results of the two algorithms on one Simulator.                         *)
(***************************************************************************)
C1_OptimalAtMostClock ==
  /\ (RunFinished /\ optimalFaults # NotComputed) => optimalFaults <= clockFaults
  /\ (results["opt"] # NoResult /\ results["clock"] # NoResult)
        => results["opt"].faults <= results["clock"].faults

\* Run has run both policies, pages were replaced, and OPT faulted less often.
C1_Witness ==
  /\ RunFinished
  /\ optimalFaults # NotComputed
  /\ optimalFaults < clockFaults
  /\ totalFrames >= 2

(***************************************************************************)
(* C2 (as claimed): with more frames neither policy faults more often: a   *)
(* run that ends with F frames has at most the faults of the run on the    *)
(* same trace with any smaller frame count F1 >= 1.                        *)
(***************************************************************************)
C2_MonotoneBothPolicies ==
  /\ OptimalDone =>
       \A F1 \in 1..(totalFrames - 1) :
          pageFaults <= OptimalRun(impl, accesses, F1).pageFaults
  /\ ClockDone =>
       \A F1 \in 1..(totalFrames - 1) :
          pageFaults <= ClockRun(accesses, F1).pageFaults

(***************************************************************************)
(* C2 (amended): OptimalAlgorithm never faults more often with more        *)
(* frames; ClockAlgorithm never does when the smaller frame count is 1 or  *)
(* the larger one is at least the number of distinct pages.                *)
(***************************************************************************)
C2_MonotoneOptimal ==
  /\ OptimalDone =>
       \A F1 \in 1..(totalFrames - 1) :
          pageFaults <= OptimalRun(impl, accesses, F1).pageFaults
  /\ ClockDone =>
       \A F1 \in 1..(totalFrames - 1) :
          (F1 = 1 \/ totalFrames >= Cardinality(DistinctPages(accesses)))
             => pageFaults <= ClockRun(accesses, F1).pageFaults

\* An OPT run with three frames ends with fewer faults than the run with two.
C2_Witness ==
  /\ OptimalDone
  /\ totalFrames = 3
  /\ evictions > 0
  /\ pageFaults < OptimalRun(impl, accesses, 2).pageFaults

(***************************************************************************)
(* C3: no demand-paging replay of the trace with F >= 1 frames, whatever   *)
(* resident page it evicts at each fault with no free frame, has fewer     *)
(* faults than OptimalAlgorithm returns.                                   *)
(***************************************************************************)
C3_OptimalIsMinimum ==
  (OptimalDone /\ totalFrames >= 1)
     => pageFaults <= MinFaults(accesses, totalFrames, 0, {})

\* An OPT run that replaced pages more than once has ended.
C3_Witness ==
  /\ OptimalDone
  /\ evictions >= 2
  /\ pageFaults = MinFaults(accesses, totalFrames, 0, {})

(***************************************************************************)
(* C4: with at least as many frames as the trace has distinct pages,       *)
(* during either run the replacement branch is never taken, every page     *)
(* accessed so far is resident and was loaded exactly once, so the fault   *)
(* count is the number of distinct pages accessed so far, and the counts   *)
(* returned are the number of distinct pages of the trace.                 *)
(***************************************************************************)
EnoughFrames == totalFrames >= Cardinality(DistinctPages(accesses))
Seen(n) == {accesses[k] : k \in 1..n}
OptimalResident == Range(frames)
Occupied == {j \in DOMAIN clockFrames : clockFrames[j] # NilFrame}
ClockResident == {clockFrames[j].PageID : j \in Occupied}

C4_EnoughFramesFaultOncePerPage ==
  EnoughFrames =>
    /\ pc # "panic"
    /\ pc \in {"opt", "clock"} =>
         /\ evictions = 0
         /\ pageFaults = Cardinality(Seen(i))
         /\ DOMAIN pageLoadCount = Seen(i)
         /\ \A p \in Seen(i) : pageLoadCount[p] = 1
         /\ pc = "opt" => OptimalResident = Seen(i)
         /\ pc = "clock" => ClockResident = Seen(i)
    /\ \A p \in Policies :
         results[p] # NoResult
            => results[p].faults = Cardinality(DistinctPages(accesses))

\* Example 3 in Run: OPT has returned 4 and the clock run ends with 4 faults.
C4_Witness ==
  /\ ClockDone
  /\ inRun
  /\ accesses = Example3
  /\ totalFrames = 4
  /\ optimalFaults = 4
  /\ pageFaults = 4

(***************************************************************************)
(* C5: a run of a policy on a Simulator that has run that policy before    *)
(* ends with the fault count and the pageLoadCount contents of the earlier *)
(* run, whatever ran in between.                                           *)
(***************************************************************************)
C5_RepeatedRunSameResult ==
  /\ (OptimalDone /\ results["opt"] # NoResult)
        => Result(pageFaults, pageLoadCount) = results["opt"]
  /\ (ClockDone /\ results["clock"] # NoResult)
        => Result(pageFaults, pageLoadCount) = results["clock"]

\* A second OPT run ends, after a clock run in between, having replaced pages.
C5_Witness ==
  /\ OptimalDone
  /\ results["opt"] # NoResult
  /\ lastRun = "clock"
  /\ evictions > 0

(***************************************************************************)
(* C6 (as claimed): on the trace [A,B,C,A,B,D,A,B,C,D] with 3 frames,      *)
(* OptimalAlgorithm returns 4.                                             *)
(***************************************************************************)
C6_Example1FourFaults ==
  (OptimalDone /\ accesses = Example1 /\ totalFrames = 3) => pageFaults = 4

(***************************************************************************)
(* C6 (amended): on the trace [A,B,C,A,B,D,A,B,C,D] with 3 frames,         *)
(* OptimalAlgorithm returns 5.                                             *)
(***************************************************************************)
C6_Example1FiveFaults ==
  (OptimalDone /\ accesses = Example1 /\ totalFrames = 3) => pageFaults = 5

\* The OPT run on Example 1 with 3 frames has ended.
C6_Witness == OptimalDone /\ accesses = Example1 /\ totalFrames = 3

(***************************************************************************)
(* C7: with one frame, after i accesses of either run the fault count is   *)
(* the number of positions below i that are position 0 or hold a page      *)
(* other than the position before, and the clock hand is 0; no run stops  *)
(* in a panic; [A,A,A,A] ends with 1 fault and load counts {A: 1},         *)
(* [A,B,A,B,A,B] with 6 faults.                                            *)
(***************************************************************************)
ChangeCount(acc, n) ==
  Cardinality({j \in 1..n : j = 1 \/ acc[j] # acc[j - 1]})

C7_SingleFrame ==
  totalFrames = 1 =>
    /\ pc # "panic"
    /\ pc \in {"opt", "clock"} =>
         /\ pageFaults = ChangeCount(accesses, i)
         /\ clockPointer = 0
         /\ (i = Len(accesses) /\ accesses = Example2)
               => pageFaults = 1 /\ pageLoadCount = (1 :> 1)
         /\ (i = Len(accesses) /\ accesses = Example4) => pageFaults = 6

\* Example 4 in Run with one frame: OPT returned 6, the clock run ends with 6.
C7_Witness ==
  /\ ClockDone
  /\ inRun
  /\ totalFrames = 1
  /\ accesses = Example4
  /\ optimalFaults = 6
  /\ pageFaults = 6

(***************************************************************************)
(* C8: when the memory size gives no frame, main stops with its error      *)
(* before a Simulator exists, and Run prints its error and returns: Run    *)
(* calls neither algorithm, replays nothing and prints no fault count.     *)
(***************************************************************************)
ConfigErrors ==
  {<<Line("erro_memoria_pequena", memorySize, 0, EmptyMap)>>,
   <<Line("erro_memoria_insuficiente", PAGE_SIZE, 0, EmptyMap)>>}

C8_NoFramesNoRun ==
  FramesOf(memorySize) = 0 =>
    /\ ~inRun
    /\ optimalFaults = 0 /\ clockFaults = 0
    /\ output # <<>> => output \in ConfigErrors
    /\ pc = "exit" => output \in ConfigErrors
    /\ caller # "test" =>
         /\ pc \in {"start", "exit"}
         /\ i = 0 /\ pageFaults = 0
         /\ \A p \in Policies : results[p] = NoResult

\* Run, called on a Simulator of 4095 bytes, has returned with its error.
C8_Witness ==
  /\ memorySize = PAGE_SIZE - 1
  /\ caller = "test"
  /\ pc = "idle"
  /\ output = <<Line("erro_memoria_insuficiente", PAGE_SIZE, 0, EmptyMap)>>

(***************************************************************************)
(* C9: with skipOptimal set Run never is in OptimalAlgorithm, its OPT      *)
(* count is the sentinel -1, which no run returns, it prints no OPT count, *)
(* and its clock run ends with the faults and load counts of a clock run   *)
(* on a fresh Simulator, as the clock run of a Run without the flag does.  *)
(***************************************************************************)
Printed(msg) == \E k \in DOMAIN output : output[k].msg = msg

C9_SkipOptimal ==
  /\ (inRun /\ skipOptimal) => (pc # "opt" /\ optimalFaults = NotComputed)
  /\ pageFaults # NotComputed
  /\ \A p \in Policies : results[p] # NoResult => results[p].faults # NotComputed
  /\ RunFinished =>
       /\ (optimalFaults = NotComputed) = skipOptimal
       /\ Printed("otimo_ignorado") = skipOptimal
       /\ Printed("faltas_otimo") = ~skipOptimal
       /\ clockFaults = ClockRun(accesses, totalFrames).pageFaults
       /\ pageLoadCount = ClockRun(accesses, totalFrames).pageLoadCount

\* A Run with the flag set has ended, and its clock run replaced pages.
C9_Witness ==
  /\ RunFinished
  /\ skipOptimal
  /\ optimalFaults = NotComputed
  /\ clockFaults > Cardinality(DistinctPages(accesses))

(***************************************************************************)
(* C10: in every state no page is in two frames, and the map kept beside   *)
(* the frames (inMemory, frameMap, pageToFrame) has exactly the resident   *)
(* pages as keys, an index entry being the index of the frame that holds   *)
(* the page.                                                               *)
(***************************************************************************)
C10_FrameTableConsistent ==
  /\ \A a, b \in DOMAIN frames : a # b => frames[a] # frames[b]
  /\ impl = "main.go" => DOMAIN inMemory = OptimalResident
  /\ impl = "part_000" =>
       /\ DOMAIN frameMap = OptimalResident
       /\ \A p \in DOMAIN frameMap :
            /\ frameMap[p] \in 0..(Len(frames) - 1)
            /\ frames[frameMap[p] + 1] = p
  /\ \A a, b \in Occupied : a # b => clockFrames[a].PageID # clockFrames[b].PageID
  /\ DOMAIN pageToFrame = ClockResident
  /\ \A p \in DOMAIN pageToFrame :
       /\ pageToFrame[p] + 1 \in Occupied
       /\ clockFrames[pageToFrame[p] + 1].PageID = p

\* In Run, part_000's OPT has replaced pages and the clock run has too.
C10_Witness ==
  /\ impl = "part_000"
  /\ pc = "clock"
  /\ inRun
  /\ evictions >= 2
  /\ optimalFaults > Cardinality(DistinctPages(accesses))

\* The position of the next occurrence of page p after position idx of the
\* trace, Len(acc) when there is none.
NextOccurrence(acc, p, idx) ==
  LET S == {k \in (idx + 1)..(Len(acc) - 1) : acc[k + 1] = p}
  IN  IF S = {} THEN Len(acc) ELSE SetMin(S)

\* The frame the victim rule names: the lowest frame whose page never occurs
\* again, else the frame whose page occurs again last.
RuleVictim(fr, acc, idx) ==
  LET next(j) == NextOccurrence(acc, fr[j + 1], idx)
      slots == 0..(Len(fr) - 1)
      never == {j \in slots : next(j) = Len(acc)}
      last == {j \in slots : \A k \in slots : next(k) <= next(j)}
  IN  IF never # {} THEN SetMin(never) ELSE SetMin(last)

\* OptimalAlgorithm is about to fault with every frame in use.
OptimalFullFault ==
  /\ pc = "opt"
  /\ i < Len(accesses)
  /\ totalFrames >= 1
  /\ Len(frames) = totalFrames
  /\ accesses[i + 1] \notin Range(frames)

(***************************************************************************)
(* C11: when OptimalAlgorithm faults at position i with every frame in     *)
(* use, the victim is the lowest-indexed frame whose page does not occur   *)
(* after i if there is one, else the frame whose page has the largest next *)
(* occurrence; the faulting page takes the victim's frame index and every  *)
(* other frame is unchanged.  Both implementations.                        *)
(***************************************************************************)
C11_OptimalVictim ==
  [][OptimalFullFault =>
        /\ pc' = "opt"
        /\ i' = i + 1
        /\ frames' = [frames EXCEPT ![RuleVictim(frames, accesses, i) + 1] = accesses[i + 1]]
        /\ evictions' = evictions + 1]_vars

\* Example 1 with three frames after both kinds of eviction: page 3 left
\* frame 2 as the page used last, page 1 left frame 0 as a page never used again.
C11_Witness ==
  /\ pc = "opt"
  /\ accesses = Example1
  /\ totalFrames = 3
  /\ i = 9
  /\ frames = <<3, 2, 4>>
  /\ evictions = 2

\* ClockAlgorithm is about to fault with no empty frame.
ClockFullFault ==
  /\ pc = "clock"
  /\ i < Len(accesses)
  /\ totalFrames >= 1
  /\ Occupied = DOMAIN clockFrames
  /\ accesses[i + 1] \notin ClockResident

\* The number of frames the hand passes before it stops at the victim: the
\* distance from the hand to the first frame without the bit, a whole turn
\* when every frame has it.
PassedFrames(fr, cp, F) ==
  LET clear == {d \in 0..(F - 1) : ~fr[((cp + d) % F) + 1].Referenced}
  IN  IF clear = {} THEN F ELSE SetMin(clear)

(***************************************************************************)
(* C12: when ClockAlgorithm faults with no empty frame, the frames from    *)
(* the hand up to the first frame without the reference bit lose the bit   *)
(* (all of them and the victim is the frame the hand started at, when      *)
(* every frame has it); that first frame is the victim and gets the new    *)
(* page with the bit set and load count 1; the hand ends one past the      *)
(* victim, modulo totalFrames; frames the hand did not pass keep page and  *)
(* bit.                                                                    *)
(***************************************************************************)
C12_ClockEviction ==
  [][ClockFullFault =>
        LET F == totalFrames
            d == PassedFrames(clockFrames, clockPointer, F)
            victim == (clockPointer + d) % F
            passed == {(clockPointer + e) % F : e \in 0..(d - 1)}
        IN  /\ pc' = "clock"
            /\ i' = i + 1
            /\ clockPointer' = (victim + 1) % F
            /\ evictions' = evictions + 1
            /\ clockFrames' =
                 [j \in 1..F |->
                    IF j - 1 = victim
                      THEN [PageID |-> accesses[i + 1], Referenced |-> TRUE,
                            LoadCount |-> 1]
                    ELSE IF j - 1 \in passed
                      THEN [clockFrames[j] EXCEPT !.Referenced = FALSE]
                    ELSE clockFrames[j]]]_vars

\* Example 1 with three frames after two evictions: the first passed every
\* frame and took frame 0, the second took frame 1 at once, so that frame 0
\* kept its bit and frame 2 stayed without it.
C12_Witness ==
  /\ pc = "clock"
  /\ accesses = Example1
  /\ totalFrames = 3
  /\ i = 7
  /\ evictions = 2
  /\ clockPointer = 2
  /\ clockFrames[1] = [PageID |-> 4, Referenced |-> TRUE, LoadCount |-> 1]
  /\ clockFrames[2] = [PageID |-> 1, Referenced |-> TRUE, LoadCount |-> 1]
  /\ clockFrames[3] = [PageID |-> 3, Referenced |-> FALSE, LoadCount |-> 1]

(***************************************************************************)
(* ClockAlgorithm called on its own, again and again, as a program that    *)
(* keeps running: a loop iteration that can be taken is taken, and so is   *)
(* the return.                                                             *)
(***************************************************************************)
ClockNext ==
  \/ NewSimulator
  \/ CallClock
  \/ ClockAccess
  \/ ClockReturn

ClockSpec ==
  /\ Init
  /\ [][ClockNext]_vars
  /\ WF_vars(ClockAccess)
  /\ WF_vars(ClockReturn)

(***************************************************************************)
(* C13: with totalFrames >= 1 the eviction scan of ClockAlgorithm ends     *)
(* after looking at no more than 2 * totalFrames frames, and a started     *)
(* ClockAlgorithm returns.                                                 *)
(***************************************************************************)
C13_ClockScanTerminates ==
  /\ [](ClockFullFault =>
          LET scan == ClockScan(clockFrames, clockPointer, totalFrames, 0)
          IN  scan.victim >= 0 /\ scan.visited <= 2 * totalFrames)
  /\ (pc = "clock" /\ totalFrames >= 1) ~> (pc = "idle" /\ lastRun = "clock")

\* The longest scan has happened: with at least two frames the hand passed
\* every frame (none has the bit any more but the new page's) and came back
\* to frame 0.
C13_Witness ==
  /\ pc = "clock"
  /\ totalFrames >= 2
  /\ evictions = 1
  /\ clockPointer = 1
  /\ clockFrames[1].Referenced
  /\ \A j \in 2..totalFrames : ~clockFrames[j].Referenced

\* ClockAlgorithm is about to fault while a frame is still empty.
ClockFreeFault ==
  /\ pc = "clock"
  /\ i < Len(accesses)
  /\ accesses[i + 1] \notin ClockResident
  /\ Occupied # DOMAIN clockFrames

(***************************************************************************)
(* C14: when ClockAlgorithm faults while some frame is empty, the page     *)
(* goes into the lowest-indexed empty frame with the reference bit set and *)
(* load count 1; the hand does not move, no page leaves memory and no      *)
(* other frame changes.                                                    *)
(***************************************************************************)
C14_ClockFillsLowestEmpty ==
  [][ClockFreeFault =>
        LET lowest == SetMin(DOMAIN clockFrames \ Occupied)
        IN  /\ pc' = "clock"
            /\ i' = i + 1
            /\ clockPointer' = clockPointer
            /\ evictions' = evictions
            /\ clockFrames' =
                 [clockFrames EXCEPT ![lowest] =
                    [PageID |-> accesses[i + 1], Referenced |-> TRUE,
                     LoadCount |-> 1]]]_vars

\* Two pages have been put into frames 0 and 1 of more than two, the hand
\* still at 0.
C14_Witness ==
  /\ pc = "clock"
  /\ totalFrames >= 3
  /\ pageFaults = 2
  /\ clockPointer = 0
  /\ Occupied = {1, 2}
  /\ clockFrames[2].PageID = accesses[i]

\* The next access is to a page in memory.
OptimalHit == pc = "opt" /\ i < Len(accesses) /\ accesses[i + 1] \in OptimalResident
ClockHit == pc = "clock" /\ i < Len(accesses) /\ accesses[i + 1] \in ClockResident

(***************************************************************************)
(* C15: an access to a page in memory is a hit.  In OptimalAlgorithm it    *)
(* changes neither the frames, the map beside them, the fault count nor    *)
(* the load counts; in ClockAlgorithm it sets the reference bit of the     *)
(* frame that holds the page and changes nothing else (other frames, the   *)
(* hand, the page-to-frame map, the fault count, the load counts).         *)
(***************************************************************************)
C15_HitChangesOnlyReferenceBit ==
  [][/\ OptimalHit =>
          /\ i' = i + 1
          /\ UNCHANGED <<pc, frames, inMemory, frameMap, pageFaults,
                         pageLoadCount, evictions, clockLocals>>
     /\ ClockHit =>
          /\ i' = i + 1
          /\ UNCHANGED <<pc, pageToFrame, clockPointer, pageFaults,
                         pageLoadCount, evictions, optLocals>>
          /\ clockFrames' =
               [j \in DOMAIN clockFrames |->
                  IF clockFrames[j] # NilFrame /\ clockFrames[j].PageID = accesses[i + 1]
                    THEN [clockFrames[j] EXCEPT !.Referenced = TRUE]
                    ELSE clockFrames[j]]]_vars

\* A clock hit has set a bit again that an eviction scan had cleared: the
\* page just accessed is in a frame other than frame 0 and other than the
\* one loaded last, with the bit set, while another frame is without it.
C15_Witness ==
  /\ pc = "clock"
  /\ i >= 1
  /\ evictions >= 1
  /\ pageFaults = evictions + totalFrames
  /\ \E j \in Occupied :
       /\ j > 1
       /\ j # ((clockPointer + totalFrames - 1) % totalFrames) + 1
       /\ clockFrames[j].PageID = accesses[i]
       /\ clockFrames[j].Referenced
  /\ \E j \in Occupied : ~clockFrames[j].Referenced

\* The sum of the values of a map.
RECURSIVE SumOver(_, _)
SumOver(m, S) ==
  IF S = {} THEN 0
  ELSE LET x == CHOOSE y \in S : TRUE IN m[x] + SumOver(m, S \ {x})

MapSum(m) == SumOver(m, DOMAIN m)

\* The next access of the running algorithm is a fault.
NextIsFault ==
  \/ pc = "opt" /\ i < Len(accesses) /\ accesses[i + 1] \notin OptimalResident
  \/ pc = "clock" /\ i < Len(accesses) /\ accesses[i + 1] \notin ClockResident

(***************************************************************************)
(* C16: while an algorithm runs, the values of pageLoadCount add up to its *)
(* fault count; a fault adds exactly 1 to the entry of the faulting page   *)
(* and to no other, a hit changes no entry; when the replay is over the    *)
(* keys of pageLoadCount are the distinct pages of the trace and every     *)
(* value is at least 1.                                                    *)
(***************************************************************************)
C16_LoadAccounting ==
  /\ [](pc \in {"opt", "clock", "panic"} => MapSum(pageLoadCount) = pageFaults)
  /\ []((OptimalDone \/ ClockDone) =>
          /\ DOMAIN pageLoadCount = DistinctPages(accesses)
          /\ \A p \in DOMAIN pageLoadCount : pageLoadCount[p] >= 1)
  /\ [][(pc \in {"opt", "clock"} /\ i < Len(accesses)) =>
          IF NextIsFault
            THEN /\ pageFaults' = pageFaults + 1
                 /\ pageLoadCount' =
                      [p \in DOMAIN pageLoadCount \cup {accesses[i + 1]} |->
                         IF p = accesses[i + 1]
                           THEN (IF p \in DOMAIN pageLoadCount
                                   THEN pageLoadCount[p] ELSE 0) + 1
                           ELSE pageLoadCount[p]]
            ELSE UNCHANGED <<pageFaults, pageLoadCount>>]_vars

\* A replay is over in which a page was loaded, evicted and loaded again.
C16_Witness ==
  /\ OptimalDone \/ ClockDone
  /\ \E p \in DOMAIN pageLoadCount : pageLoadCount[p] >= 2
  /\ \E p \in DOMAIN pageLoadCount : pageLoadCount[p] = 1

(***************************************************************************)
(* C17: pageLoadCount is emptied on entry of either algorithm: the replay  *)
(* of both starts with no count, and when Run has run OptimalAlgorithm and *)
(* then ClockAlgorithm, pageLoadCount holds exactly the counts that        *)
(* ClockAlgorithm alone gives on a fresh Simulator.                        *)
(***************************************************************************)
C17_LoadCountReset ==
  /\ (pc \in {"opt", "clock"} /\ i = 0) => pageLoadCount = EmptyMap
  /\ (RunFinished /\ optimalFaults # NotComputed) =>
        pageLoadCount = ClockRun(accesses, totalFrames).pageLoadCount

\* Run has run both and the two policies loaded pages differently: the counts
\* left are not those OptimalAlgorithm had.
C17_Witness ==
  /\ RunFinished
  /\ optimalFaults # NotComputed
  /\ results["opt"] # NoResult
  /\ results["opt"].loadCount # pageLoadCount
  /\ \E p \in DOMAIN pageLoadCount : pageLoadCount[p] >= 2

\* The lines of the output that list per-page load counts.
LoadCountLines == {k \in DOMAIN output : output[k].msg = "carregamentos"}

(***************************************************************************)
(* C18 (as claimed): Run, asked to show load counts and running both       *)
(* policies, hands the load counts of the OptimalAlgorithm run to          *)
(* ShowLoadCount before ClockAlgorithm replaces them: once ClockAlgorithm  *)
(* has started in Run the output has a line with the counts                *)
(* OptimalAlgorithm ended with, and when Run is over a line with the       *)
(* counts of ClockAlgorithm follows it.                                    *)
(***************************************************************************)
C18_OptimalCountsReported ==
  /\ (inRun /\ pc = "clock" /\ showLoadCount /\ optimalFaults # NotComputed) =>
        \E k \in LoadCountLines : output[k].counts = results["opt"].loadCount
  /\ (RunFinished /\ showLoadCount /\ optimalFaults # NotComputed) =>
        \E k, m \in LoadCountLines :
           /\ k < m
           /\ output[k].counts = results["opt"].loadCount
           /\ output[m].counts = results["clock"].loadCount

\* The lines of the output that report the efficiency, numeric or not.
NumericLines == {k \in DOMAIN output : output[k].msg = "eficiencia"}
NotAvailableLines ==
  {k \in DOMAIN output :
     output[k].msg \in {"eficiencia_na_nao_executado", "eficiencia_na_sem_faltas"}}

(***************************************************************************)
(* C19: when Run is over it has reported the efficiency once.  The report  *)
(* is numeric exactly when OptimalAlgorithm was run and both fault counts  *)
(* are positive, and then it is the OPT count over the clock count with    *)
(* the numerator no larger than the denominator; when OptimalAlgorithm was *)
(* skipped or a count is zero the report is the non-numeric one and no     *)
(* number is printed for it.                                               *)
(***************************************************************************)
C19_EfficiencyReport ==
  RunFinished =>
    LET numeric == optimalFaults # NotComputed /\ optimalFaults > 0 /\ clockFaults > 0
    IN  /\ Cardinality(NumericLines \cup NotAvailableLines) = 1
        /\ numeric =>
             \A k \in NumericLines \cup NotAvailableLines :
                /\ output[k].msg = "eficiencia"
                /\ output[k].n = optimalFaults
                /\ output[k].m = clockFaults
                /\ output[k].n <= output[k].m
        /\ ~numeric =>
             \A k \in NumericLines \cup NotAvailableLines :
                /\ output[k].msg # "eficiencia"
                /\ output[k].n = 0 /\ output[k].m = 0
        /\ skipOptimal => Printed("eficiencia_na_nao_executado")

\* Run is over without OptimalAlgorithm, the report being the non-numeric
\* one although the clock count is positive.
C19_Witness ==
  /\ RunFinished
  /\ skipOptimal
  /\ clockFaults >= 2
  /\ NotAvailableLines # {}

(***************************************************************************)
(* C20: OptimalAlgorithm or ClockAlgorithm called on a Simulator without   *)
(* frames and with a non-empty trace stops in a run-time panic at the      *)
(* first access: its only step from position 0 is the panic, nothing       *)
(* follows the panic, and no fault count is ever returned.                 *)
(***************************************************************************)
C20_NoFramesPanics ==
  /\ []((FramesOf(memorySize) = 0 /\ accesses # <<>>) =>
          /\ \A p \in Policies : results[p] = NoResult
          /\ i = 0)
  /\ [][(totalFrames = 0 /\ accesses # <<>> /\ pc \in {"opt", "clock"}) =>
          pc' = "panic"]_vars
  /\ [][pc # "panic"]_vars

\* OptimalAlgorithm, called with no frame, has panicked at the first access.
C20_Witness ==
  /\ pc = "panic"
  /\ totalFrames = 0
  /\ caller = "test"
  /\ pageAccessPositions # EmptyMap
  /\ i = 0
  /\ pageFaults = 1

\* The other version of OptimalAlgorithm, and its locals after the first n
\* accesses of the trace of this Simulator.
OtherImpl == IF impl = "main.go" THEN "part_000" ELSE "main.go"
OtherOptimal(n) ==
  OptimalPrefix(OtherImpl, accesses, pageAccessPositions, totalFrames, n)

(***************************************************************************)
(* C21: the two versions of OptimalAlgorithm (main.go, whose scan breaks   *)
(* at the first page never used again, and part_000, which gives such a    *)
(* page the next use len(trace)) agree: with totalFrames >= 1, after every *)
(* access the running version has in every frame the page the other        *)
(* version has there, with the same fault count, load counts and eviction  *)
(* count (at the end of the trace these are the values returned); and      *)
(* whenever a page must be replaced both scans name the same frame.        *)
(***************************************************************************)
C21_OptimalVersionsAgree ==
  /\ []((pc = "opt" /\ totalFrames >= 1) =>
          LET other == OtherOptimal(i)
          IN  /\ ~other.panic
              /\ frames = other.frames
              /\ pageFaults = other.pageFaults
              /\ pageLoadCount = other.pageLoadCount
              /\ evictions = other.evictions
              /\ DOMAIN (IF impl = "main.go" THEN inMemory ELSE frameMap)
                   = DOMAIN (IF impl = "main.go" THEN other.frameMap ELSE other.inMemory))
  /\ [](OptimalFullFault =>
          ChooseVictim(frames, pageAccessPositions, Len(accesses), i)
            = ChooseVictimFrame(frames, pageAccessPositions, Len(accesses), i))

\* The replay of 1, 2, 3, 1 with two frames is over: page 2, never used
\* again, was found in frame 1 behind page 1, which is used again, and left.
C21_Witness ==
  /\ OptimalDone
  /\ accesses = <<1, 2, 3, 1>>
  /\ totalFrames = 2
  /\ evictions = 1
  /\ frames = <<1, 3>>

\* The frame the running version of OptimalAlgorithm would replace now.
VictimNow ==
  IF impl = "main.go"
    THEN ChooseVictim(frames, pageAccessPositions, Len(accesses), i)
    ELSE ChooseVictimFrame(frames, pageAccessPositions, Len(accesses), i)

(***************************************************************************)
(* C22: with totalFrames >= 1, in every state of a run of either policy:   *)
(* no more pages are resident than there are frames, and their number      *)
(* never goes down (an occupied frame never becomes empty); the occupied   *)
(* frames are the first k of the frame array; clockPointer is within       *)
(* 0..totalFrames-1 and is 0 until the first eviction; ClockAlgorithm      *)
(* evicts only when every frame is occupied; the victim index of           *)
(* OptimalAlgorithm is the index of a frame; and no run panics.            *)
(***************************************************************************)
C22_CapacityAndFillOrder ==
  /\ []((totalFrames >= 1 /\ caller # "none") =>
          /\ pc # "panic"
          /\ pc = "opt" =>
               /\ Len(frames) <= totalFrames
               /\ Cardinality(OptimalResident) = Len(frames)
               /\ OptimalFullFault => VictimNow \in 0..(Len(frames) - 1)
          /\ pc = "clock" =>
               /\ Len(clockFrames) = totalFrames
               /\ Cardinality(ClockResident) <= totalFrames
               /\ Occupied = 1..Cardinality(Occupied)
               /\ clockPointer \in 0..(totalFrames - 1)
               /\ evictions = 0 => clockPointer = 0)
  /\ [][(totalFrames >= 1 /\ pc = "opt" /\ pc' = "opt") =>
          /\ Len(frames') >= Len(frames)
          /\ Len(frames') <= Len(frames) + 1]_vars
  /\ [][(totalFrames >= 1 /\ pc = "clock" /\ pc' = "clock") =>
          /\ Occupied \subseteq {j \in DOMAIN clockFrames' : clockFrames'[j] # NilFrame}
          /\ evictions' # evictions => Occupied = DOMAIN clockFrames]_vars

\* A clock run with three frames has evicted twice: all frames are
\* occupied and the hand stands at the last one.
C22_Witness ==
  /\ pc = "clock"
  /\ totalFrames = 3
  /\ Occupied = {1, 2, 3}
  /\ evictions = 2
  /\ clockPointer = 2
  /\ i < Len(accesses)

(***************************************************************************)
(* C23: with totalFrames >= 1, once either policy has processed the access *)
(* at a position, hit or fault, the page accessed there is in memory, and  *)
(* in ClockAlgorithm the frame that holds it has the reference bit set; so *)
(* an access to the page accessed just before is a hit: it changes neither *)
(* the fault count nor the load counts.                                    *)
(***************************************************************************)
C23_AccessedPageResident ==
  /\ []((totalFrames >= 1 /\ pc = "opt" /\ i >= 1) =>
          /\ accesses[i] \in OptimalResident
          /\ accesses[i] \in DOMAIN (IF impl = "main.go" THEN inMemory ELSE frameMap))
  /\ []((totalFrames >= 1 /\ pc = "clock" /\ i >= 1) =>
          /\ accesses[i] \in DOMAIN pageToFrame
          /\ clockFrames[pageToFrame[accesses[i]] + 1].PageID = accesses[i]
          /\ clockFrames[pageToFrame[accesses[i]] + 1].Referenced)
  /\ [][(/\ totalFrames >= 1
         /\ pc \in {"opt", "clock"}
         /\ i >= 1
         /\ i < Len(accesses)
         /\ accesses[i + 1] = accesses[i]) =>
          /\ i' = i + 1
          /\ UNCHANGED <<pc, pageFaults, pageLoadCount, evictions>>]_vars

\* A clock run with one frame has processed the same page twice in a row
\* after replacing another page: the second access was a hit.
C23_Witness ==
  /\ pc = "clock"
  /\ totalFrames = 1
  /\ i >= 3
  /\ accesses[i] = accesses[i - 1]
  /\ accesses[i - 1] # accesses[i - 2]
  /\ pageFaults = 2
  /\ evictions = 1
=============================================================================
